---- MODULE Spec2Model ----
(***************************************************************************)
(* The OverReserve cache of the NodeResourceTopology scheduler plugin      *)
(* (pkg/noderesourcetopology/cache/overreserve.go) as a state machine.     *)
(*                                                                         *)
(* State: the topology store (nrts), the per-node resource overlay         *)
(* (assumedResources), the two dirty counters, and the position of the     *)
(* one Resync invocation, which takes the cache lock twice (once inside    *)
(* NodesMaybeOverReserved, once inside FlushNodes) and runs unlocked in    *)
(* between.  Every other public method holds the lock for its whole body   *)
(* and is one action.                                                      *)
(***************************************************************************)
EXTENDS Integers, Sequences, FiniteSets, TLC

VARIABLES
    nrts,                    \* ov.nrts: node name -> stored NodeResourceTopology
    assumedResources,        \* ov.assumedResources: node name -> resourceStore
    nodesMaybeOverreserved,  \* ov.nodesMaybeOverreserved: counter
    nodesWithForeignPods,    \* ov.nodesWithForeignPods: counter
    resyncPC,                \* where the Resync invocation stands: "idle" | "dirty"
    resyncNodeNames,         \* Resync's local nodeNames (as a set)
    resyncMethod,            \* ov.resyncMethod: set by NewOverReserve, never written again
    last                     \* history: the call that produced this state and what it returned

cache == <<nrts, assumedResources, nodesMaybeOverreserved, nodesWithForeignPods>>
vars == <<nrts, assumedResources, nodesMaybeOverreserved, nodesWithForeignPods,
          resyncPC, resyncNodeNames, resyncMethod, last>>

(***************************************************************************)
(* Bounds and the finite universe of nodes, pods and published objects.    *)
(***************************************************************************)
MaxCount == 1

\* how many reservations of one pod on one node can be outstanding at once
MaxReserves == 2

Nodes == {"n1", "n2"}

Pods == {[Namespace |-> "ns", Name |-> "a"], [Namespace |-> "ns", Name |-> "b"]}

\* the pod's effective resource request (resource name -> quantity)
PodRequests(pod) ==
    IF pod.Name = "a" THEN [r \in {"cpu"} |-> 1]
    ELSE [r \in {"cpu", "dev"} |-> IF r = "cpu" THEN 2 ELSE 1]

\* the nodes a pod can be placed on: pod a is pinned to n1
Candidates(pod) == IF pod.Name = "a" THEN {"n1"} ELSE Nodes

\* resourcerequests.AreExclusiveForPod(pod)
AreExclusiveForPod(pod) == pod.Name = "a"

\* logging.PodLogID; the resourceStore uses the same namespace/name key
PodLogID(pod) == pod.Namespace \o "/" \o pod.Name

PodKeys == {PodLogID(p) : p \in Pods}

(***************************************************************************)
(* Generic Go map helpers.  A Go map is a function whose DOMAIN is the set *)
(* of keys present.                                                        *)
(***************************************************************************)
EmptyMap == [x \in {} |-> TRUE]

MapPut(m, k, v) == [x \in (DOMAIN m) \cup {k} |-> IF x = k THEN v ELSE m[x]]

MapDelete(m, k) == [x \in (DOMAIN m) \ {k} |-> m[x]]

\* every order in which a range loop can visit the keys S
RECURSIVE Orders(_)
Orders(S) ==
    IF S = {} THEN {<<>>}
    ELSE UNION {{<<x>> \o rest : rest \in Orders(S \ {x})} : x \in S}

SeqRange(s) == {s[i] : i \in 1..Len(s)}

(***************************************************************************)
(* counter: node name -> number of times it was counted.                   *)
(***************************************************************************)
newCounter == EmptyMap

IsSet(c, key) == key \in DOMAIN c

Incr(c, key) == MapPut(c, key, IF key \in DOMAIN c THEN c[key] + 1 ELSE 1)

Delete(c, key) == MapDelete(c, key)

Clone(c) == [x \in DOMAIN c |-> c[x]]

Keys(c) == Orders(DOMAIN c)

CounterLen(c) == Cardinality(DOMAIN c)

CanIncr(c, key) == IF key \in DOMAIN c THEN c[key] < MaxCount ELSE TRUE

(***************************************************************************)
(* nrtStore: node name -> NodeResourceTopology.  An object is              *)
(*   [Name, Zones, pfp, onlyExcl]: pfp is <<>> when the object carries no  *)
(* fingerprint and <<S>> when it carries the fingerprint of the pod set S; *)
(* onlyExcl is the scope the object records for that fingerprint: <<>>     *)
(* when it records none, <<TRUE>> for the pods with exclusive resources    *)
(* only, <<FALSE>> for all pods.                                           *)
(***************************************************************************)
NilNRT == [nil |-> TRUE]

Contains(store, nodeName) == nodeName \in DOMAIN store

GetNRTCopyByNodeName(store, nodeName) ==
    IF nodeName \in DOMAIN store THEN store[nodeName] ELSE NilNRT

Update(store, nrt) == MapPut(store, nrt.Name, nrt)

(***************************************************************************)
(* resourceStore: pod key -> the charges accumulated for the pod (resource *)
(* name -> quantity).  An add increments the charges by the pod's          *)
(* requests, a remove decrements them by the same, never below zero; a pod *)
(* whose charges are all back to zero is no longer in the store, and the   *)
(* remove of a pod that is not in the store does nothing.                  *)
(***************************************************************************)
newResourceStore == EmptyMap

ChargeOf(res, r) == IF r \in DOMAIN res THEN res[r] ELSE 0

AddPod(rs, pod) ==
    LET key == PodLogID(pod)
        old == IF key \in DOMAIN rs THEN rs[key] ELSE EmptyMap
        req == PodRequests(pod)
    IN  MapPut(rs, key, [r \in (DOMAIN old) \cup (DOMAIN req) |-> ChargeOf(old, r) + ChargeOf(req, r)])

DeletePod(rs, pod) ==
    LET key == PodLogID(pod)
        req == PodRequests(pod)
    IN  IF key \notin DOMAIN rs THEN rs
        ELSE LET left == [r \in DOMAIN rs[key] |->
                            IF rs[key][r] < ChargeOf(req, r) THEN 0
                            ELSE rs[key][r] - ChargeOf(req, r)]
             IN  IF \A r \in DOMAIN left : left[r] = 0 THEN MapDelete(rs, key)
                 ELSE MapPut(rs, key, left)

\* the pod has fewer than MaxReserves reservations outstanding in the store
CanAddPod(rs, pod) ==
    LET key == PodLogID(pod)
    IN  IF key \notin DOMAIN rs THEN TRUE
        ELSE \A r \in DOMAIN PodRequests(pod) : rs[key][r] < MaxReserves * PodRequests(pod)[r]

\* one pod's requests taken from every zone: a resource the pod does not
\* request is left alone, one it requests beyond what is available drops to 0
SubtractFromZone(zone, res) ==
    [r \in DOMAIN zone |->
        IF r \notin DOMAIN res THEN zone[r]
        ELSE IF zone[r] < res[r] THEN 0
        ELSE zone[r] - res[r]]

RECURSIVE UpdateNRTInOrder(_, _, _)
UpdateNRTInOrder(rs, order, nrt) ==
    IF order = <<>> THEN nrt
    ELSE UpdateNRTInOrder(rs, Tail(order),
            [nrt EXCEPT !.Zones = [zi \in DOMAIN nrt.Zones |->
                                      SubtractFromZone(nrt.Zones[zi], rs[Head(order)])]])

\* UpdateNRT ranges over the store's map, so the visiting order is not fixed:
\* the set of objects it can leave behind
UpdateNRT(rs, nrt) == {UpdateNRTInOrder(rs, order, nrt) : order \in Orders(DOMAIN rs)}

(***************************************************************************)
(* The objects the node agent can have published for a node (what          *)
(* client.Get and the initial client.List can return).                     *)
(***************************************************************************)
\* zones: per zone, resource name -> available quantity
ZonesA == << [r \in {"cpu", "dev"} |-> IF r = "cpu" THEN 2 ELSE 1], [r \in {"cpu"} |-> 4] >>

ZonesB == << [r \in {"cpu", "dev"} |-> IF r = "cpu" THEN 3 ELSE 0], [r \in {"cpu"} |-> 1] >>

ZonesC == << [r \in {"cpu"} |-> 3] >>

PublishedNRTs(nodeName) ==
    IF nodeName = "n1"
    THEN { [Name |-> "n1", Zones |-> ZonesA, pfp |-> <<>>, onlyExcl |-> <<>>],
           [Name |-> "n1", Zones |-> ZonesA, pfp |-> << {"ns/a"} >>, onlyExcl |-> <<TRUE>>],
           [Name |-> "n1", Zones |-> ZonesB, pfp |-> << {"ns/a", "ns/b"} >>, onlyExcl |-> <<>>] }
    ELSE { [Name |-> "n2", Zones |-> ZonesC, pfp |-> << {"ns/b"} >>, onlyExcl |-> <<FALSE>>] }

AllPublishedNRTs == UNION {PublishedNRTs(n) : n \in Nodes}

GetError == [err |-> TRUE]

\* client.Get(Name: nodeName): an error, or the published object of that name
GetResults(nodeName) == {GetError} \cup PublishedNRTs(nodeName)

(***************************************************************************)
(* Fingerprint reconciliation.                                             *)
(***************************************************************************)
\* apiconfig.CacheResyncMethod
CacheResyncMethods == {"Autodetect", "All", "OnlyExclusiveResources"}

\* what NewOverReserve can be given as cfg.  A pointer is <<>> when nil and <<v>> when
\* it points to v: cfg is nil, or points to a NodeResourceTopologyCache whose
\* ResyncMethod is nil or points to a method
CacheConfigs ==
    {<<>>} \cup {<< [ResyncMethod |-> r] >> : r \in {<<>>} \cup {<<m>> : m \in CacheResyncMethods}}

getCacheResyncMethod(cfg) ==
    IF cfg # <<>> /\ cfg[1].ResyncMethod # <<>> THEN cfg[1].ResyncMethod[1]
    ELSE "Autodetect"

\* the expected fingerprint and its scope: the scope the object records, and the
\* cache's resync method only when the object records none
podFingerprintForNodeTopology(nrt, method) ==
    [pfpExpected |-> nrt.pfp,
     onlyExclRes |-> IF nrt.onlyExcl # <<>> THEN nrt.onlyExcl[1]
                     ELSE method = "OnlyExclusiveResources"]

\* podfingerprint: Add every pod in scope, Sign, Check against the expected one
checkPodFingerprintForNode(objs, nodeName, pfpExpected, onlyExclRes) ==
    LET inScope == {o \in objs : ~onlyExclRes \/ o.HasExclusiveResources}
        pfpComputed == << {o.Namespace \o "/" \o o.Name : o \in inScope} >>
    IN  IF pfpComputed = pfpExpected THEN "ok" ELSE "ErrSignatureMismatch"

\* the pod lister's answer: where each pod runs ("" while it is not bound)
Listings == {l \in [Pods -> Nodes \cup {""}] : \A p \in Pods : l[p] \in Candidates(p) \cup {""}}

isPodRelevant(pod) == TRUE

makeNodeToPodDataMap(listing) ==
    LET relevant == {p \in Pods : isPodRelevant(p)}
        names == {listing[p] : p \in relevant}
    IN  [n \in names |->
            {[Namespace |-> p.Namespace, Name |-> p.Name,
              HasExclusiveResources |-> AreExclusiveForPod(p)] :
                p \in {q \in relevant : listing[q] = n}}]

(***************************************************************************)
(* The cache's methods, as functions of the cache state.                   *)
(***************************************************************************)
\* mutant: the overlay is looked up but never applied to the copy
GetCachedNRTCopyRets_noOverlay(nodeName) ==
    IF IsSet(nodesWithForeignPods, nodeName) THEN {[nrt |-> NilNRT, ok |-> FALSE]}
    ELSE LET nrt == GetNRTCopyByNodeName(nrts, nodeName)
         IN  IF nrt = NilNRT THEN {[nrt |-> NilNRT, ok |-> TRUE]}
             ELSE {[nrt |-> nrt, ok |-> TRUE]}

\* what GetCachedNRTCopy can return in the current state
GetCachedNRTCopyRets(nodeName) ==
    IF IsSet(nodesWithForeignPods, nodeName) THEN {[nrt |-> NilNRT, ok |-> FALSE]}
    ELSE LET nrt == GetNRTCopyByNodeName(nrts, nodeName)
         IN  IF nrt = NilNRT THEN {[nrt |-> NilNRT, ok |-> TRUE]}
             ELSE IF nodeName \notin DOMAIN assumedResources THEN {[nrt |-> nrt, ok |-> TRUE]}
             ELSE {[nrt |-> u, ok |-> TRUE] : u \in UpdateNRT(assumedResources[nodeName], nrt)}

\* mutant: the node's overlay entry is reset to an empty store, not deleted
FlushOne_zeroed(c, nrt) ==
    [nrts |-> Update(c.nrts, nrt),
     assumedResources |-> MapPut(c.assumedResources, nrt.Name, newResourceStore),
     nodesMaybeOverreserved |-> Delete(c.nodesMaybeOverreserved, nrt.Name),
     nodesWithForeignPods |-> Delete(c.nodesWithForeignPods, nrt.Name)]

\* FlushNodes' loop body for one object, on the tuple of the four stores
FlushOne(c, nrt) ==
    [nrts |-> Update(c.nrts, nrt),
     assumedResources |-> MapDelete(c.assumedResources, nrt.Name),
     nodesMaybeOverreserved |-> Delete(c.nodesMaybeOverreserved, nrt.Name),
     nodesWithForeignPods |-> Delete(c.nodesWithForeignPods, nrt.Name)]

RECURSIVE FlushAll(_, _)
FlushAll(c, nrtSeq) ==
    IF nrtSeq = <<>> THEN c ELSE FlushAll(FlushOne(c, Head(nrtSeq)), Tail(nrtSeq))

CacheRecord ==
    [nrts |-> nrts, assumedResources |-> assumedResources,
     nodesMaybeOverreserved |-> nodesMaybeOverreserved,
     nodesWithForeignPods |-> nodesWithForeignPods]

SetCache(c) ==
    /\ nrts' = c.nrts
    /\ assumedResources' = c.assumedResources
    /\ nodesMaybeOverreserved' = c.nodesMaybeOverreserved
    /\ nodesWithForeignPods' = c.nodesWithForeignPods

\* the dirty set NodesMaybeOverReserved builds: the foreign counter cloned,
\* then every maybe-over-reserved key counted into it
RECURSIVE IncrAll(_, _)
IncrAll(c, keys) ==
    IF keys = {} THEN c
    ELSE LET k == CHOOSE x \in keys : TRUE
         IN  IncrAll(Incr(c, k), keys \ {k})

\* mutant: the dirty list is the list of the nodes with foreign pods alone
DirtyCounter_foreignOnly == Clone(nodesWithForeignPods)

DirtyCounter == IncrAll(Clone(nodesWithForeignPods), DOMAIN nodesMaybeOverreserved)

\* mutant: the first node that fails a check ends the loop with nothing to flush
\* (a return where the code has a continue)
ResyncUpdates_abortsOnFailure(nodeNames, nodeToObjsMap, got) ==
    LET passes(m) ==
            /\ got[m] # GetError
            /\ m \in DOMAIN nodeToObjsMap
            /\ LET f == podFingerprintForNodeTopology(got[m], resyncMethod)
               IN  /\ f.pfpExpected # <<>>
                   /\ checkPodFingerprintForNode(nodeToObjsMap[m], m, f.pfpExpected, f.onlyExclRes) = "ok"
    IN  IF \A m \in nodeNames : passes(m) THEN {got[m] : m \in nodeNames} ELSE {}

\* mutant: a fingerprint mismatch is logged and the object is used all the same
ResyncUpdates_ignoresMismatch(nodeNames, nodeToObjsMap, got) ==
    { got[n] : n \in { m \in nodeNames :
        /\ got[m] # GetError
        /\ m \in DOMAIN nodeToObjsMap
        /\ podFingerprintForNodeTopology(got[m], resyncMethod).pfpExpected # <<>> } }

\* Resync's loop over the dirty nodes: the objects it decides to flush
ResyncUpdates(nodeNames, nodeToObjsMap, got) ==
    { got[n] : n \in { m \in nodeNames :
        /\ got[m] # GetError
        /\ m \in DOMAIN nodeToObjsMap
        /\ LET f == podFingerprintForNodeTopology(got[m], resyncMethod)
           IN  /\ f.pfpExpected # <<>>
               /\ checkPodFingerprintForNode(nodeToObjsMap[m], m, f.pfpExpected, f.onlyExclRes) = "ok" } }

(***************************************************************************)
(* Init: NewOverReserve.  The topology store holds what the initial        *)
(* client.List returned; the overlay and both counters are empty.          *)
(***************************************************************************)
Call(op, nodeName, podKey, ret) == [op |-> op, node |-> nodeName, pod |-> podKey, ret |-> ret]

InitialListings ==
    UNION { { f \in [S -> AllPublishedNRTs] : \A n \in S : f[n] \in PublishedNRTs(n) } :
            S \in SUBSET Nodes }

Init ==
    /\ nrts \in InitialListings
    /\ assumedResources = EmptyMap
    /\ nodesMaybeOverreserved = newCounter
    /\ nodesWithForeignPods = newCounter
    /\ resyncPC = "idle"
    /\ resyncNodeNames = {}
    /\ resyncMethod \in {getCacheResyncMethod(cfg) : cfg \in CacheConfigs}
    /\ last = Call("NewOverReserve", "-", "-", TRUE)

(***************************************************************************)
(* The public methods.  Each holds ov.lock from its first statement to its *)
(* return, so each is one atomic step.                                     *)
(***************************************************************************)
\* a read: it returns one of GetCachedNRTCopyRets and leaves the cache as it is
GetCachedNRTCopy(nodeName, pod) ==
    /\ GetCachedNRTCopyRets(nodeName) # {}
    /\ UNCHANGED vars

NodeMaybeOverReserved(nodeName, pod) ==
    /\ CanIncr(nodesMaybeOverreserved, nodeName)
    /\ nodesMaybeOverreserved' = Incr(nodesMaybeOverreserved, nodeName)
    /\ last' = Call("NodeMaybeOverReserved", nodeName, "-", nodesMaybeOverreserved'[nodeName])
    /\ UNCHANGED <<nrts, assumedResources, nodesWithForeignPods, resyncPC, resyncNodeNames, resyncMethod>>

\* mutant: the test of the topology store is inverted, so the nodes counted are those
\* the store does not hold
NodeHasForeignPods_invertedContains(nodeName, pod) ==
    /\ IF Contains(nrts, nodeName)
       THEN /\ UNCHANGED nodesWithForeignPods
            /\ last' = Call("NodeHasForeignPods", nodeName, "-", 0)
       ELSE /\ CanIncr(nodesWithForeignPods, nodeName)
            /\ nodesWithForeignPods' = Incr(nodesWithForeignPods, nodeName)
            /\ last' = Call("NodeHasForeignPods", nodeName, "-", nodesWithForeignPods'[nodeName])
    /\ UNCHANGED <<nrts, assumedResources, nodesMaybeOverreserved, resyncPC, resyncNodeNames, resyncMethod>>

\* mutant: the node is counted without asking the topology store about it
NodeHasForeignPods_noContains(nodeName, pod) ==
    /\ CanIncr(nodesWithForeignPods, nodeName)
    /\ nodesWithForeignPods' = Incr(nodesWithForeignPods, nodeName)
    /\ last' = Call("NodeHasForeignPods", nodeName, "-", nodesWithForeignPods'[nodeName])
    /\ UNCHANGED <<nrts, assumedResources, nodesMaybeOverreserved, resyncPC, resyncNodeNames, resyncMethod>>

NodeHasForeignPods(nodeName, pod) ==
    /\ IF ~Contains(nrts, nodeName)
       THEN /\ UNCHANGED nodesWithForeignPods
            /\ last' = Call("NodeHasForeignPods", nodeName, "-", 0)
       ELSE /\ CanIncr(nodesWithForeignPods, nodeName)
            /\ nodesWithForeignPods' = Incr(nodesWithForeignPods, nodeName)
            /\ last' = Call("NodeHasForeignPods", nodeName, "-", nodesWithForeignPods'[nodeName])
    /\ UNCHANGED <<nrts, assumedResources, nodesMaybeOverreserved, resyncPC, resyncNodeNames, resyncMethod>>

\* mutant: a store made for a node new to the overlay is filled but not kept in the map
ReserveNodeResources_newStoreNotKept(nodeName, pod) ==
    LET ok == nodeName \in DOMAIN assumedResources
        nodeAssumedResources == IF ok THEN assumedResources[nodeName] ELSE newResourceStore
    IN  /\ CanAddPod(nodeAssumedResources, pod)
        /\ assumedResources' = IF ok THEN MapPut(assumedResources, nodeName, AddPod(nodeAssumedResources, pod))
                                 ELSE assumedResources
        /\ nodesMaybeOverreserved' = Delete(nodesMaybeOverreserved, nodeName)
        /\ nodesWithForeignPods' = nodesWithForeignPods
        /\ last' = Call("ReserveNodeResources", nodeName, PodLogID(pod),
                        [before |-> GetCachedNRTCopyRets(nodeName),
                         fresh |-> PodLogID(pod) \notin DOMAIN nodeAssumedResources,
                         cleared |-> IsSet(nodesMaybeOverreserved, nodeName)])
        /\ UNCHANGED <<nrts, resyncPC, resyncNodeNames, resyncMethod>>

\* mutant: the reserve resets the foreign-pods counter of the node instead of the other one
ReserveNodeResources_clearsForeign(nodeName, pod) ==
    LET ok == nodeName \in DOMAIN assumedResources
        nodeAssumedResources == IF ok THEN assumedResources[nodeName] ELSE newResourceStore
    IN  /\ CanAddPod(nodeAssumedResources, pod)
        /\ assumedResources' = MapPut(assumedResources, nodeName, AddPod(nodeAssumedResources, pod))
        /\ nodesMaybeOverreserved' = nodesMaybeOverreserved
        /\ nodesWithForeignPods' = Delete(nodesWithForeignPods, nodeName)
        /\ last' = Call("ReserveNodeResources", nodeName, PodLogID(pod),
                        [before |-> GetCachedNRTCopyRets(nodeName),
                         fresh |-> PodLogID(pod) \notin DOMAIN nodeAssumedResources,
                         cleared |-> IsSet(nodesMaybeOverreserved, nodeName)])
        /\ UNCHANGED <<nrts, resyncPC, resyncNodeNames, resyncMethod>>

\* mutant: the reserve resets the whole maybe-over-reserved counter
ReserveNodeResources_clearsAllMarks(nodeName, pod) ==
    LET ok == nodeName \in DOMAIN assumedResources
        nodeAssumedResources == IF ok THEN assumedResources[nodeName] ELSE newResourceStore
    IN  /\ CanAddPod(nodeAssumedResources, pod)
        /\ assumedResources' = MapPut(assumedResources, nodeName, AddPod(nodeAssumedResources, pod))
        /\ nodesMaybeOverreserved' = newCounter
        /\ nodesWithForeignPods' = nodesWithForeignPods
        /\ last' = Call("ReserveNodeResources", nodeName, PodLogID(pod),
                        [before |-> GetCachedNRTCopyRets(nodeName),
                         fresh |-> PodLogID(pod) \notin DOMAIN nodeAssumedResources,
                         cleared |-> IsSet(nodesMaybeOverreserved, nodeName)])
        /\ UNCHANGED <<nrts, resyncPC, resyncNodeNames, resyncMethod>>

ReserveNodeResources(nodeName, pod) ==
    LET ok == nodeName \in DOMAIN assumedResources
        nodeAssumedResources == IF ok THEN assumedResources[nodeName] ELSE newResourceStore
    IN  /\ CanAddPod(nodeAssumedResources, pod)
        /\ assumedResources' = MapPut(assumedResources, nodeName, AddPod(nodeAssumedResources, pod))
        /\ nodesMaybeOverreserved' = Delete(nodesMaybeOverreserved, nodeName)
        /\ last' = Call("ReserveNodeResources", nodeName, PodLogID(pod),
                        [before |-> GetCachedNRTCopyRets(nodeName),
                         fresh |-> PodLogID(pod) \notin DOMAIN nodeAssumedResources,
                         cleared |-> IsSet(nodesMaybeOverreserved, nodeName)])
        /\ UNCHANGED <<nrts, nodesWithForeignPods, resyncPC, resyncNodeNames, resyncMethod>>

\* mutant: the pod is looked up but not deleted from the node's store
UnreserveNodeResources_noDelete(nodeName, pod) ==
    LET ok == nodeName \in DOMAIN assumedResources
    IN  /\ IF ~ok
           THEN /\ UNCHANGED assumedResources
                /\ last' = Call("UnreserveNodeResources", nodeName, PodLogID(pod),
                                [ok |-> FALSE, known |-> FALSE, undoes |-> FALSE])
           ELSE /\ UNCHANGED assumedResources
                /\ last' = Call("UnreserveNodeResources", nodeName, PodLogID(pod),
                                [ok |-> TRUE,
                                 known |-> PodLogID(pod) \in DOMAIN assumedResources[nodeName],
                                 undoes |-> IF last.op = "ReserveNodeResources"
                                            THEN /\ last.node = nodeName
                                                 /\ last.pod = PodLogID(pod)
                                                 /\ last.ret.fresh
                                            ELSE FALSE])
        /\ UNCHANGED <<nrts, nodesMaybeOverreserved, nodesWithForeignPods, resyncPC, resyncNodeNames, resyncMethod>>

\* mutant: a node without an overlay entry is given an empty one
UnreserveNodeResources_createsEntry(nodeName, pod) ==
    LET ok == nodeName \in DOMAIN assumedResources
    IN  /\ IF ~ok
           THEN /\ assumedResources' = MapPut(assumedResources, nodeName, newResourceStore)
                /\ last' = Call("UnreserveNodeResources", nodeName, PodLogID(pod),
                                [ok |-> FALSE, known |-> FALSE, undoes |-> FALSE])
           ELSE /\ assumedResources' =
                      MapPut(assumedResources, nodeName, DeletePod(assumedResources[nodeName], pod))
                /\ last' = Call("UnreserveNodeResources", nodeName, PodLogID(pod),
                                [ok |-> TRUE,
                                 known |-> PodLogID(pod) \in DOMAIN assumedResources[nodeName],
                                 undoes |-> IF last.op = "ReserveNodeResources"
                                            THEN /\ last.node = nodeName
                                                 /\ last.pod = PodLogID(pod)
                                                 /\ last.ret.fresh
                                            ELSE FALSE])
        /\ UNCHANGED <<nrts, nodesMaybeOverreserved, nodesWithForeignPods, resyncPC, resyncNodeNames, resyncMethod>>

\* mutant: the node's whole overlay entry is deleted, not the pod in it
UnreserveNodeResources_dropsNode(nodeName, pod) ==
    LET ok == nodeName \in DOMAIN assumedResources
    IN  /\ IF ~ok
           THEN /\ UNCHANGED assumedResources
                /\ last' = Call("UnreserveNodeResources", nodeName, PodLogID(pod),
                                [ok |-> FALSE, known |-> FALSE, undoes |-> FALSE])
           ELSE /\ assumedResources' = MapDelete(assumedResources, nodeName)
                /\ last' = Call("UnreserveNodeResources", nodeName, PodLogID(pod),
                                [ok |-> TRUE,
                                 known |-> PodLogID(pod) \in DOMAIN assumedResources[nodeName],
                                 undoes |-> IF last.op = "ReserveNodeResources"
                                            THEN /\ last.node = nodeName
                                                 /\ last.pod = PodLogID(pod)
                                                 /\ last.ret.fresh
                                            ELSE FALSE])
        /\ UNCHANGED <<nrts, nodesMaybeOverreserved, nodesWithForeignPods, resyncPC, resyncNodeNames, resyncMethod>>

UnreserveNodeResources(nodeName, pod) ==
    LET ok == nodeName \in DOMAIN assumedResources
    IN  /\ IF ~ok
           THEN /\ UNCHANGED assumedResources
                /\ last' = Call("UnreserveNodeResources", nodeName, PodLogID(pod),
                                [ok |-> FALSE, known |-> FALSE, undoes |-> FALSE])
           ELSE /\ assumedResources' =
                      MapPut(assumedResources, nodeName, DeletePod(assumedResources[nodeName], pod))
                /\ last' = Call("UnreserveNodeResources", nodeName, PodLogID(pod),
                                [ok |-> TRUE,
                                 known |-> PodLogID(pod) \in DOMAIN assumedResources[nodeName],
                                 undoes |-> IF last.op = "ReserveNodeResources"
                                            THEN /\ last.node = nodeName
                                                 /\ last.pod = PodLogID(pod)
                                                 /\ last.ret.fresh
                                            ELSE FALSE])
        /\ UNCHANGED <<nrts, nodesMaybeOverreserved, nodesWithForeignPods, resyncPC, resyncNodeNames, resyncMethod>>

\* mutant: the keys of the two counters are appended, not merged
NodesMaybeOverReservedRets_appended ==
    {f \o o : f \in Keys(nodesWithForeignPods), o \in Keys(nodesMaybeOverreserved)}

\* nodes.Keys(): the keys of the merged counter, in any map order
NodesMaybeOverReservedRets == Keys(DirtyCounter)

\* the merged counter is a local clone: neither counter of the cache is written
NodesMaybeOverReserved ==
    /\ \E keys \in NodesMaybeOverReservedRets :
          last' = Call("NodesMaybeOverReserved", "-", "-", keys)
    /\ UNCHANGED <<cache, resyncPC, resyncNodeNames, resyncMethod>>

\* every argument list FlushNodes is given here: one object, one for each node,
\* or two different objects of the same node in either order
FlushArgs ==
    {<<x>> : x \in AllPublishedNRTs} \cup
    {<<p[1], p[2]>> : p \in {q \in AllPublishedNRTs \X AllPublishedNRTs :
                                \/ q[1].Name = "n1" /\ q[2].Name = "n2"
                                \/ q[1].Name = q[2].Name /\ q[1] # q[2]}}

\* mutant: the lock is given up after the topology store is updated, so the step
\* ends with the new objects stored and the overlay and counters not yet touched
FlushNodes_updateOnly(nrtSeq) ==
    /\ nrts' = FlushAll(CacheRecord, nrtSeq).nrts
    /\ last' = Call("FlushNodes", "-", "-", [flushed |-> {x.Name : x \in SeqRange(nrtSeq)},
                                             given |-> nrtSeq])
    /\ UNCHANGED <<assumedResources, nodesMaybeOverreserved, nodesWithForeignPods,
                   resyncPC, resyncNodeNames, resyncMethod>>

FlushNodes(nrtSeq) ==
    /\ SetCache(FlushAll(CacheRecord, nrtSeq))
    /\ last' = Call("FlushNodes", "-", "-", [flushed |-> {x.Name : x \in SeqRange(nrtSeq)},
                                             given |-> nrtSeq])
    /\ UNCHANGED <<resyncPC, resyncNodeNames, resyncMethod>>

(***************************************************************************)
(* Resync.  It takes the lock inside NodesMaybeOverReserved, releases it,  *)
(* lists the pods and fetches the objects without the lock, and takes the  *)
(* lock again inside FlushNodes.  The unlocked part reads nothing of the   *)
(* cache, so it is folded into the second step.                            *)
(***************************************************************************)
ResyncDirty ==
    /\ resyncPC = "idle"
    /\ LET nodeNames == DOMAIN DirtyCounter
       IN  IF nodeNames = {}
           THEN /\ last' = Call("Resync", "-", "-", [outcome |-> "no dirty nodes", flushed |-> {}])
                /\ UNCHANGED <<resyncPC, resyncNodeNames, resyncMethod>>
           ELSE /\ resyncPC' = "dirty"
                /\ resyncNodeNames' = nodeNames
                /\ UNCHANGED resyncMethod
                /\ UNCHANGED last
    /\ UNCHANGED cache

Fetches(nodeNames) ==
    { g \in [nodeNames -> {GetError} \cup AllPublishedNRTs] : \A n \in nodeNames : g[n] \in GetResults(n) }

\* mutant: every object that was fetched is handed to the flush, checked or not
ResyncCycle_flushesFetched(listing, got) ==
    LET nodeToObjsMap == makeNodeToPodDataMap(listing)
        nrtUpdates == ResyncUpdates(resyncNodeNames, nodeToObjsMap, got)
        fetched == {got[n] : n \in {m \in resyncNodeNames : got[m] # GetError}}
        flushed == {x.Name : x \in nrtUpdates}
    IN  /\ SetCache(FlushAll(CacheRecord, CHOOSE o \in Orders(fetched) : TRUE))
        /\ last' = Call("Resync", "-", "-",
                        [outcome |-> "checked", flushed |-> flushed,
                         roster |-> [n \in flushed |->
                                       {PodLogID(p) : p \in {q \in Pods : listing[q] = n}}]])

\* one cycle past the pod listing: the objects fetched for the dirty nodes are
\* checked against the listed pods and the ones that match are flushed
ResyncCycle(listing, got) ==
    LET nodeToObjsMap == makeNodeToPodDataMap(listing)
        nrtUpdates == ResyncUpdates(resyncNodeNames, nodeToObjsMap, got)
        flushed == {x.Name : x \in nrtUpdates}
    IN  /\ SetCache(FlushAll(CacheRecord, CHOOSE o \in Orders(nrtUpdates) : TRUE))
        /\ last' = Call("Resync", "-", "-",
                        [outcome |-> "checked", flushed |-> flushed,
                         roster |-> [n \in flushed |->
                                       {PodLogID(p) : p \in {q \in Pods : listing[q] = n}}]])

\* mutant: the error of the pod listing is logged and the cycle goes on with the pods
\* the lister did return
ResyncFlushOn_ignoresListError(fetches) ==
    /\ resyncPC = "dirty"
    /\ resyncPC' = "idle"
    /\ resyncNodeNames' = {}
    /\ UNCHANGED resyncMethod
    /\ \E listErr \in BOOLEAN :
          IF listErr
          THEN \E listing \in Listings, got \in fetches :
                  LET nrtUpdates == ResyncUpdates(resyncNodeNames, makeNodeToPodDataMap(listing), got)
                  IN  /\ SetCache(FlushAll(CacheRecord, CHOOSE o \in Orders(nrtUpdates) : TRUE))
                      /\ last' = Call("Resync", "-", "-",
                                      [outcome |-> "list error", flushed |-> {}])
          ELSE \E listing \in Listings, got \in fetches : ResyncCycle(listing, got)

\* the rest of Resync, given what the API server can answer to the fetches
ResyncFlushOn(fetches) ==
    /\ resyncPC = "dirty"
    /\ resyncPC' = "idle"
    /\ resyncNodeNames' = {}
    /\ UNCHANGED resyncMethod
    /\ \E listErr \in BOOLEAN :
          IF listErr
          THEN /\ UNCHANGED cache
               /\ last' = Call("Resync", "-", "-", [outcome |-> "list error", flushed |-> {}])
          ELSE \E listing \in Listings, got \in fetches : ResyncCycle(listing, got)

ResyncFlush == ResyncFlushOn(Fetches(resyncNodeNames))

Next ==
    \/ \E n \in Nodes, p \in Pods : GetCachedNRTCopy(n, p)
    \/ \E n \in Nodes, p \in Pods : NodeMaybeOverReserved(n, p)
    \/ \E n \in Nodes, p \in Pods : NodeHasForeignPods(n, p)
    \/ \E p \in Pods : \E n \in Candidates(p) : ReserveNodeResources(n, p)
    \/ \E p \in Pods : \E n \in Candidates(p) : UnreserveNodeResources(n, p)
    \/ NodesMaybeOverReserved
    \/ \E nrtSeq \in FlushArgs : FlushNodes(nrtSeq)
    \/ ResyncDirty
    \/ ResyncFlush

Spec == Init /\ [][Next]_vars

(***************************************************************************)
(* The same cache when the agent of n2 sees no pod on its node: the object *)
(* it publishes, and client.Get returns, carries the fingerprint of the    *)
(* empty pod set.                                                          *)
(***************************************************************************)
IdleNodeNRT == [Name |-> "n2", Zones |-> ZonesC, pfp |-> << {} >>, onlyExcl |-> <<FALSE>>]

GetResultsWithIdle(nodeName) ==
    IF nodeName = IdleNodeNRT.Name THEN {GetError, IdleNodeNRT} ELSE GetResults(nodeName)

FetchesWithIdle(nodeNames) ==
    { g \in [nodeNames -> {GetError, IdleNodeNRT} \cup AllPublishedNRTs] :
        \A n \in nodeNames : g[n] \in GetResultsWithIdle(n) }

ResyncFlushWithIdle == ResyncFlushOn(FetchesWithIdle(resyncNodeNames))

NextWithIdle ==
    \/ \E n \in Nodes, p \in Pods : GetCachedNRTCopy(n, p)
    \/ \E n \in Nodes, p \in Pods : NodeMaybeOverReserved(n, p)
    \/ \E n \in Nodes, p \in Pods : NodeHasForeignPods(n, p)
    \/ \E p \in Pods : \E n \in Candidates(p) : ReserveNodeResources(n, p)
    \/ \E p \in Pods : \E n \in Candidates(p) : UnreserveNodeResources(n, p)
    \/ NodesMaybeOverReserved
    \/ \E nrtSeq \in FlushArgs : FlushNodes(nrtSeq)
    \/ ResyncDirty
    \/ ResyncFlushWithIdle

SpecWithIdle == Init /\ [][NextWithIdle]_vars

(***************************************************************************)
(* The cache when the cluster has settled: both pods are bound to n1 and   *)
(* listed there without error, n1 publishes the object with the            *)
(* fingerprint of its pods in the scope the cache checks ({a} when the     *)
(* cache is configured for exclusive resources only, {a, b} otherwise) and *)
(* n2 the object of a node that runs nothing, and every fetch succeeds.    *)
(* Resync is called again and again (its caller                            *)
(* runs it on a timer): weak fairness of its first step.  A call that has  *)
(* started goes on to its end (the loop of Resync is over a finite list):  *)
(* the call is idle again and again.  The second step is enabled exactly   *)
(* when resyncPC = "dirty" and is the only step that leaves that value, so *)
(* this is WF_vars(ResyncFlushSettled) written on the states.              *)
(***************************************************************************)
SettledListing == [p \in Pods |-> "n1"]

SettledNRT(nodeName) ==
    IF nodeName = IdleNodeNRT.Name THEN IdleNodeNRT
    ELSE CHOOSE o \in PublishedNRTs(nodeName) :
            o.pfp = << {PodLogID(p) : p \in {q \in Pods : resyncMethod = "OnlyExclusiveResources"
                                                           => AreExclusiveForPod(q)}} >>

SettledFetch(nodeNames) == [n \in nodeNames |-> SettledNRT(n)]

ResyncFlushSettled ==
    /\ resyncPC = "dirty"
    /\ resyncPC' = "idle"
    /\ resyncNodeNames' = {}
    /\ UNCHANGED resyncMethod
    /\ ResyncCycle(SettledListing, SettledFetch(resyncNodeNames))

NextSettled ==
    \/ \E n \in Nodes, p \in Pods : GetCachedNRTCopy(n, p)
    \/ \E n \in Nodes, p \in Pods : NodeMaybeOverReserved(n, p)
    \/ \E n \in Nodes, p \in Pods : NodeHasForeignPods(n, p)
    \/ \E p \in Pods : \E n \in Candidates(p) : ReserveNodeResources(n, p)
    \/ \E p \in Pods : \E n \in Candidates(p) : UnreserveNodeResources(n, p)
    \/ NodesMaybeOverReserved
    \/ \E nrtSeq \in FlushArgs : FlushNodes(nrtSeq)
    \/ ResyncDirty
    \/ ResyncFlushSettled

SpecSettled ==
    Init /\ [][NextSettled]_vars /\ WF_vars(ResyncDirty) /\ []<>(resyncPC = "idle")

(***************************************************************************)
(* Vocabulary of the properties.                                           *)
(***************************************************************************)
\* the step is a call of op (last is the record of the latest call)
Did(op) == last' # last /\ last'.op = op

PodOfKey(key) == CHOOSE p \in Pods : PodLogID(p) = key

Max0(x) == IF x < 0 THEN 0 ELSE x

RequestOf(res, r) == IF r \in DOMAIN res THEN res[r] ELSE 0

RECURSIVE SumRequests(_, _, _)
SumRequests(rs, keys, r) ==
    IF keys = {} THEN 0
    ELSE LET k == CHOOSE x \in keys : TRUE
         IN  RequestOf(rs[k], r) + SumRequests(rs, keys \ {k}, r)

\* nrt with `charge(r)` taken from every zone's available r, never below zero
Adjusted(nrt, rs) ==
    [nrt EXCEPT !.Zones =
        [zi \in DOMAIN nrt.Zones |->
            [r \in DOMAIN nrt.Zones[zi] |->
                Max0(nrt.Zones[zi][r] - SumRequests(rs, DOMAIN rs, r))]]]

Tracked(nodeName) ==
    IF nodeName \in DOMAIN assumedResources THEN DOMAIN assumedResources[nodeName] ELSE {}

NilFalse == [nrt |-> NilNRT, ok |-> FALSE]

NilTrue == [nrt |-> NilNRT, ok |-> TRUE]

\* what the view of a node is when nothing is charged to it
Unoverlaid(nodeName) ==
    IF IsSet(nodesWithForeignPods, nodeName) THEN NilFalse
    ELSE IF ~Contains(nrts, nodeName) THEN NilTrue
    ELSE [nrt |-> nrts[nodeName], ok |-> TRUE]

DirtyNodes == (DOMAIN nodesWithForeignPods) \cup (DOMAIN nodesMaybeOverreserved)

(***************************************************************************)
(* C1.  Whenever Resync flushes node N, every pod with an outstanding      *)
(* reservation on N (tracked in N's overlay) is in the roster of N that    *)
(* the fingerprint check matched, so no in-flight reservation is dropped.  *)
(* Resync's second step violates it: the roster is listed without the      *)
(* lock and holds only bound pods, while the flush deletes the overlay as  *)
(* it is at flush time.                                                    *)
(***************************************************************************)
C1_ResyncFlushKeepsReservations ==
    [][ (resyncPC = "dirty" /\ resyncPC' = "idle" /\ last'.ret.outcome = "checked")
        => \A n \in last'.ret.flushed : Tracked(n) \subseteq last'.ret.roster[n] ]_vars

(***************************************************************************)
(* C2.  ReserveNodeResources(N,U) on a node with a stored object, no       *)
(* foreign flag and no charge of another pod: afterwards GetCachedNRTCopy  *)
(* returns the stored object with U's requests taken from every zone,      *)
(* clamped at zero (and with them what U was already charged on N, when U  *)
(* is reserved there once more).                                           *)
(***************************************************************************)
C2_ReserveThenView ==
    [][ \A n \in Nodes, u \in Pods :
          (/\ Did("ReserveNodeResources")
           /\ last'.node = n
           /\ last'.pod = PodLogID(u)
           /\ Contains(nrts, n)
           /\ ~IsSet(nodesWithForeignPods, n)
           /\ Tracked(n) \subseteq {PodLogID(u)})
          => GetCachedNRTCopyRets(n)' =
               { [nrt |-> [nrts[n] EXCEPT !.Zones =
                             [zi \in DOMAIN nrts[n].Zones |->
                                [r \in DOMAIN nrts[n].Zones[zi] |->
                                   Max0(nrts[n].Zones[zi][r]
                                        - (IF PodLogID(u) \in Tracked(n)
                                           THEN RequestOf(assumedResources[n][PodLogID(u)], r)
                                           ELSE 0)
                                        - RequestOf(PodRequests(u), r))]]],
                  ok |-> TRUE] } ]_vars

\* pod b reserved alone on n1 holding ZonesB: cpu of zone 1 goes 3 -> 1, cpu of
\* zone 2 is clamped (1 < 2) and dev of zone 1 is clamped (0 < 1)
C2_Witness ==
    /\ last.op = "ReserveNodeResources"
    /\ last.node = "n1"
    /\ last.pod = "ns/b"
    /\ Tracked("n1") = {"ns/b"}
    /\ Contains(nrts, "n1")
    /\ nrts["n1"].Zones = ZonesB
    /\ ~IsSet(nodesWithForeignPods, "n1")
    /\ \E v \in GetCachedNRTCopyRets("n1") : v.nrt.Zones[2]["cpu"] = 0 /\ v.nrt.Zones[1]["cpu"] = 1

C4_ForeignUntilFlush ==
    [][ \A n \in Nodes :
          (/\ IsSet(nodesWithForeignPods, n)
           /\ ~(last'.op \in {"FlushNodes", "Resync"} /\ n \in last'.ret.flushed))
          => /\ IsSet(nodesWithForeignPods', n)
             /\ GetCachedNRTCopyRets(n)' = {NilFalse} ]_vars

\* a reserve on a flagged node with a stored object, which cleared the node's other
\* mark: the flag survives it and the view stays withheld
C4_Witness ==
    /\ last.op = "ReserveNodeResources"
    /\ IsSet(nodesWithForeignPods, last.node)
    /\ Contains(nrts, last.node)
    /\ last.ret.cleared
    /\ GetCachedNRTCopyRets(last.node) = {NilFalse}

(***************************************************************************)
(* C5.  GetCachedNRTCopy(N) returns (nil, true) exactly when N is not      *)
(* foreign-flagged and has no stored object; for an unflagged node with a  *)
(* stored object it returns (copy, true), the copy being the stored object *)
(* with the sum of the overlay's requests taken from every zone (never     *)
(* below zero), and the stored object itself when N has no overlay entry.  *)
(***************************************************************************)
C5_GetCachedNRTCopy ==
    \A n \in Nodes :
        /\ (NilTrue \in GetCachedNRTCopyRets(n))
              <=> (~IsSet(nodesWithForeignPods, n) /\ ~Contains(nrts, n))
        /\ (~IsSet(nodesWithForeignPods, n) /\ Contains(nrts, n))
              => GetCachedNRTCopyRets(n) =
                    { [nrt |-> IF n \in DOMAIN assumedResources
                               THEN Adjusted(nrts[n], assumedResources[n])
                               ELSE nrts[n],
                       ok |-> TRUE] }
        /\ IsSet(nodesWithForeignPods, n) => GetCachedNRTCopyRets(n) = {NilFalse}

\* n1 is unflagged with two pods charged to it, n2 has no stored object
C5_Witness ==
    /\ Tracked("n1") = {"ns/a", "ns/b"}
    /\ Contains(nrts, "n1")
    /\ ~IsSet(nodesWithForeignPods, "n1")
    /\ ~Contains(nrts, "n2")
    /\ GetCachedNRTCopyRets("n2") = {NilTrue}
    /\ \E v \in GetCachedNRTCopyRets("n1") : v.ok /\ v.nrt.Zones # nrts["n1"].Zones

(***************************************************************************)
(* C6.  UnreserveNodeResources(N,U) on a node without an overlay entry     *)
(* changes nothing: no entry is created for N, and the stored objects, the *)
(* overlay entries and both counters of every node stay as they are.       *)
(***************************************************************************)
C6_UnreserveUntracked ==
    [][ (Did("UnreserveNodeResources") /\ last'.node \notin DOMAIN assumedResources)
        => UNCHANGED cache ]_vars

\* such a call on n2 while n1 carries an overlay and a dirty mark
C6_Witness ==
    /\ last.op = "UnreserveNodeResources"
    /\ ~last.ret.ok
    /\ last.node = "n2"
    /\ "n2" \notin DOMAIN assumedResources
    /\ Tracked("n1") # {}
    /\ IsSet(nodesMaybeOverreserved, "n1")

(***************************************************************************)
(* C7.  UnreserveNodeResources(N,U) of a pod the overlay of N does not     *)
(* hold (never reserved, or already removed) leaves the overlay of N, and  *)
(* the rest of the cache, as it is: a second unreserve changes nothing and *)
(* takes nothing from the other pods reserved on N.                        *)
(***************************************************************************)
C7_DoubleUnreserve ==
    [][ (/\ Did("UnreserveNodeResources")
         /\ last'.node \in DOMAIN assumedResources
         /\ last'.pod \notin Tracked(last'.node))
        => UNCHANGED cache ]_vars

\* an unreserve of an unknown pod on a node that holds another pod's reservation
C7_Witness ==
    /\ last.op = "UnreserveNodeResources"
    /\ last.ret.ok
    /\ ~last.ret.known
    /\ Tracked(last.node) # {}

(***************************************************************************)
(* C8.  NodeMaybeOverReserved(N) puts N in the list NodesMaybeOverReserved *)
(* returns.  ReserveNodeResources(N,U) removes N from the                  *)
(* maybe-over-reserved counter and nothing else from it: every other       *)
(* marked node keeps its count and stays listed, and the foreign counter   *)
(* is unchanged.                                                           *)
(***************************************************************************)
C8_ReserveClearsOwnMark ==
    [][ /\ Did("NodeMaybeOverReserved")
           => \A keys \in NodesMaybeOverReservedRets' : last'.node \in SeqRange(keys)
        /\ Did("ReserveNodeResources")
           => /\ ~IsSet(nodesMaybeOverreserved', last'.node)
              /\ \A m \in (DOMAIN nodesMaybeOverreserved) \ {last'.node} :
                    /\ IsSet(nodesMaybeOverreserved', m)
                    /\ nodesMaybeOverreserved'[m] = nodesMaybeOverreserved[m]
              /\ \A keys \in NodesMaybeOverReservedRets' :
                    (DOMAIN nodesMaybeOverreserved) \ {last'.node} \subseteq SeqRange(keys)
              /\ nodesWithForeignPods' = nodesWithForeignPods ]_vars

\* a reserve that cleared the mark of its node while the other node is marked
C8_Witness ==
    /\ last.op = "ReserveNodeResources"
    /\ last.ret.cleared
    /\ IsSet(nodesWithForeignPods, last.node)
    /\ \E m \in Nodes \ {last.node} : IsSet(nodesMaybeOverreserved, m)

(***************************************************************************)
(* C9.  NodesMaybeOverReserved returns exactly the nodes in the foreign    *)
(* counter or in the maybe-over-reserved counter, each name once, and      *)
(* leaves the cache (both counters included) unchanged.                    *)
(***************************************************************************)
C9_DirtyListIsUnion ==
    [][ Did("NodesMaybeOverReserved")
        => /\ SeqRange(last'.ret) = DirtyNodes
           /\ Len(last'.ret) = Cardinality(DirtyNodes)
           /\ UNCHANGED cache ]_vars

\* a call while n1 carries both marks and n2 one
C9_Witness ==
    /\ last.op = "NodesMaybeOverReserved"
    /\ IsSet(nodesWithForeignPods, "n1")
    /\ IsSet(nodesMaybeOverreserved, "n1")
    /\ IsSet(nodesMaybeOverreserved, "n2")
    /\ Len(last.ret) = 2

(***************************************************************************)
(* C10.  NodeHasForeignPods(N) counts N in the foreign counter exactly     *)
(* when the topology store contains N; otherwise the cache is unchanged,   *)
(* the dirty list is unchanged and GetCachedNRTCopy(N) still returns       *)
(* (nil, true).                                                            *)
(***************************************************************************)
C10_ForeignNeedsSnapshot ==
    [][ \A n \in Nodes :
          (Did("NodeHasForeignPods") /\ last'.node = n)
          => IF Contains(nrts, n)
             THEN /\ nodesWithForeignPods' = Incr(nodesWithForeignPods, n)
                  /\ UNCHANGED <<nrts, assumedResources, nodesMaybeOverreserved>>
             ELSE /\ UNCHANGED cache
                  /\ NodesMaybeOverReservedRets' = NodesMaybeOverReservedRets
                  /\ GetCachedNRTCopyRets(n)' = {NilTrue} ]_vars

\* the call on n2, which has no stored object, while n1 is flagged
C10_Witness ==
    /\ last.op = "NodeHasForeignPods"
    /\ last.ret = 0
    /\ ~Contains(nrts, last.node)
    /\ ~IsSet(nodesWithForeignPods, last.node)
    /\ \E m \in Nodes \ {last.node} : IsSet(nodesWithForeignPods, m)

\* everything the cache holds about one node
NodeState(nodeName) ==
    [nrt      |-> GetNRTCopyByNodeName(nrts, nodeName),
     overlay  |-> IF nodeName \in DOMAIN assumedResources
                  THEN <<assumedResources[nodeName]>> ELSE <<>>,
     over     |-> IF IsSet(nodesMaybeOverreserved, nodeName)
                  THEN nodesMaybeOverreserved[nodeName] ELSE 0,
     foreign  |-> IF IsSet(nodesWithForeignPods, nodeName)
                  THEN nodesWithForeignPods[nodeName] ELSE 0]

\* the node is as a flush leaves it: an object stored, nothing else
Clean(nodeName) ==
    /\ Contains(nrts, nodeName)
    /\ nodeName \notin DOMAIN assumedResources
    /\ ~IsSet(nodesMaybeOverreserved, nodeName)
    /\ ~IsSet(nodesWithForeignPods, nodeName)

(***************************************************************************)
(* C11, as claimed.  After FlushNodes(S), for every object s of S the      *)
(* topology store holds s under s.Name, the node has no overlay entry      *)
(* (absent, not empty) and is in neither counter; every node not named in  *)
(* S is as it was.                                                         *)
(***************************************************************************)
C11_FlushNodes ==
    [][ last'.op = "FlushNodes"
        => LET nrtSeq == last'.ret.given
           IN  /\ \A s \in SeqRange(nrtSeq) : nrts'[s.Name] = s /\ Clean(s.Name)'
               /\ \A n \in Nodes \ {s.Name : s \in SeqRange(nrtSeq)} :
                     NodeState(n)' = NodeState(n) ]_vars

\* the object of S that FlushNodes(S) leaves stored for a node named in S: the
\* last one of that node in S
LastGiven(nrtSeq, n) ==
    LET at == {i \in DOMAIN nrtSeq : nrtSeq[i].Name = n}
    IN  nrtSeq[CHOOSE i \in at : \A j \in at : j <= i]

(***************************************************************************)
(* C11.  After FlushNodes(S), for every node named in S the topology store *)
(* holds the last object S gives for that node, the node has no overlay    *)
(* entry (absent, not empty) and is in neither counter; every node not     *)
(* named in S is as it was.  The same holds of the nodes a Resync flushes. *)
(***************************************************************************)
C11_FlushNodesLastGiven ==
    [][ /\ last'.op = "FlushNodes"
           => LET nrtSeq == last'.ret.given
              IN  /\ \A n \in {s.Name : s \in SeqRange(nrtSeq)} :
                        nrts'[n] = LastGiven(nrtSeq, n) /\ Clean(n)'
                  /\ \A n \in Nodes \ {s.Name : s \in SeqRange(nrtSeq)} :
                        NodeState(n)' = NodeState(n)
        /\ last'.op \in {"FlushNodes", "Resync"}
           => /\ \A n \in last'.ret.flushed : Clean(n)'
              /\ \A n \in Nodes \ last'.ret.flushed : NodeState(n)' = NodeState(n) ]_vars

\* FlushNodes given two different objects of n1, the second now stored, while n2
\* keeps an overlay and both marks
C11_Witness ==
    /\ last.op = "FlushNodes"
    /\ last.ret.flushed = {"n1"}
    /\ Len(last.ret.given) = 2
    /\ last.ret.given[1] # last.ret.given[2]
    /\ nrts["n1"] = last.ret.given[2]
    /\ Clean("n1")
    /\ Tracked("n2") # {}
    /\ IsSet(nodesMaybeOverreserved, "n2")
    /\ IsSet(nodesWithForeignPods, "n2")

(***************************************************************************)
(* C12.  A flush of a node is one step: whenever a step replaces the       *)
(* stored object of a node, deletes its overlay entry or clears its        *)
(* foreign mark, the step ends with all of the flush done for that node    *)
(* (object stored, no overlay entry, neither mark), so the new object is   *)
(* never seen with the old overlay: GetCachedNRTCopy returns it as stored. *)
(***************************************************************************)
C12_FlushIsAtomic ==
    [][ \A n \in Nodes :
          (\/ NodeState(n)'.nrt # NodeState(n).nrt
           \/ (n \in DOMAIN assumedResources /\ n \notin DOMAIN assumedResources')
           \/ (IsSet(nodesWithForeignPods, n) /\ ~IsSet(nodesWithForeignPods', n)))
          => /\ Clean(n)'
             /\ GetCachedNRTCopyRets(n)' = {[nrt |-> nrts'[n], ok |-> TRUE]} ]_vars

\* a Resync has flushed n1, replacing its object, while n2 stays dirty with an overlay
C12_Witness ==
    /\ last.op = "Resync"
    /\ last.ret.flushed = {"n1"}
    /\ Clean("n1")
    /\ nrts["n1"].Zones = ZonesB
    /\ Tracked("n2") # {}
    /\ IsSet(nodesMaybeOverreserved, "n2")

(***************************************************************************)
(* C13.  A reservation of U on N stays observable until U is unreserved    *)
(* on N: across every step of any thread other than that unreserve (and    *)
(* other than a direct FlushNodes call), U is still charged to N in the    *)
(* overlay GetCachedNRTCopy applies, unless a Resync flushed N against a   *)
(* roster that holds U (the stored object then accounts for U).  The       *)
(* flush at the end of a Resync violates it, as in C1.                     *)
(***************************************************************************)
C13_ReserveObserved ==
    [][ \A n \in Nodes, u \in PodKeys :
          (/\ u \in Tracked(n)
           /\ ~(last'.op = "UnreserveNodeResources" /\ last'.node = n /\ last'.pod = u)
           /\ last'.op # "FlushNodes")
          => \/ u \in Tracked(n)'
             \/ /\ last'.op = "Resync"
                /\ n \in last'.ret.flushed
                /\ u \in last'.ret.roster[n] ]_vars

(***************************************************************************)
(* C14.  A node has an entry in assumedResources only if a reservation is  *)
(* outstanding on it (a pod reserved there and neither unreserved nor      *)
(* flushed since).  UnreserveNodeResources deletes the pod from the node's *)
(* store and keeps the store, emptied, in the map.                         *)
(***************************************************************************)
C14_EntryOnlyIfOutstanding ==
    \A n \in Nodes : n \in DOMAIN assumedResources => Tracked(n) # {}

\* the pods the lister reports on a node
RosterOf(listing, nodeName) == {PodLogID(p) : p \in {q \in Pods : listing[q] = nodeName}}

\* the scope of an object's fingerprint is the pods with exclusive resources only:
\* as the object records it; an object that records no scope is read in the scope
\* the cache was configured with
ExclusiveScope(obj) ==
    \/ obj.onlyExcl = <<TRUE>>
    \/ obj.onlyExcl = <<>> /\ resyncMethod = "OnlyExclusiveResources"

\* the part of that roster the object's fingerprint is about
RosterInScope(listing, obj) ==
    {PodLogID(p) : p \in {q \in Pods : /\ listing[q] = obj.Name
                                        /\ (ExclusiveScope(obj) => AreExclusiveForPod(q))}}

\* the fetched object carries the fingerprint of the node's roster, in its scope
DigestMatches(listing, obj) ==
    /\ obj # GetError
    /\ obj.pfp = << RosterInScope(listing, obj) >>

\* the step is the second half of a Resync that got past the pod listing
CycleStep == resyncPC = "dirty" /\ resyncPC' = "idle" /\ last'.op = "Resync"

(***************************************************************************)
(* C15.  A Resync cycle flushes a dirty node exactly when the object       *)
(* fetched for it carries the fingerprint of the node's roster (in the     *)
(* object's scope).  A flushed node ends the cycle holding the fetched     *)
(* object, without overlay and marks; a node not flushed is left as it     *)
(* was, so it is still dirty if it was.  Stated for every answer of the    *)
(* API server, the object of an idle node included: there the roster is    *)
(* empty, the fingerprint is the one of the empty set, and the node is     *)
(* not flushed.                                                            *)
(***************************************************************************)
C15_FlushIffMatch ==
    [][ CycleStep =>
          \A listing \in Listings, got \in FetchesWithIdle(resyncNodeNames) :
             ResyncCycle(listing, got)
             => \A n \in resyncNodeNames :
                   IF DigestMatches(listing, got[n])
                   THEN NodeState(n)'.nrt = got[n] /\ Clean(n)'
                   ELSE NodeState(n)' = NodeState(n) ]_vars

\* the lister reports at least one pod on the node, so the node has a roster
HasRoster(listing, nodeName) == RosterOf(listing, nodeName) # {}

\* the nodes a cycle over the dirty nodes D decides to flush
Decision(D, listing, got) ==
    {x.Name : x \in ResyncUpdates(D, makeNodeToPodDataMap(listing), got)}

\* the step is the first half of a Resync that found dirty nodes
DirtyStep == resyncPC = "idle" /\ resyncPC' = "dirty"

(***************************************************************************)
(* C15, amended.  A Resync cycle flushes a dirty node exactly when the     *)
(* lister reports at least one pod on the node and the object fetched for  *)
(* it carries the fingerprint of that roster (in the object's scope).      *)
(* First conjunct: once the dirty nodes are collected, this is what the    *)
(* cycle decides for every listing and every answer of the API server.     *)
(* Second conjunct: a flushed node ends the cycle clean, holding an object *)
(* whose fingerprint is the one of the roster it was checked against; a    *)
(* dirty node not flushed is as it was.                                    *)
(***************************************************************************)
C15_FlushIffRosterMatch ==
    [][ /\ DirtyStep =>
             \A listing \in Listings, got \in FetchesWithIdle(resyncNodeNames') :
                \A n \in resyncNodeNames' :
                   (n \in Decision(resyncNodeNames', listing, got))
                   <=> (HasRoster(listing, n) /\ DigestMatches(listing, got[n]))
        /\ CycleStep =>
             \A n \in resyncNodeNames :
                IF n \in last'.ret.flushed
                THEN /\ Clean(n)'
                     /\ last'.ret.roster[n] # {}
                     /\ nrts'[n].pfp =
                          << {k \in last'.ret.roster[n] :
                                ExclusiveScope(nrts'[n]) => AreExclusiveForPod(PodOfKey(k))} >>
                ELSE NodeState(n)' = NodeState(n) ]_vars

\* a cycle over both dirty nodes flushed n1, whose object carries the fingerprint of
\* {a, b} and whose roster was {a, b}, and left n2 dirty
C15_Witness ==
    /\ last.op = "Resync"
    /\ last.ret.outcome = "checked"
    /\ last.ret.flushed = {"n1"}
    /\ last.ret.roster["n1"] = {"ns/a", "ns/b"}
    /\ nrts["n1"].pfp = << {"ns/a", "ns/b"} >>
    /\ Clean("n1")
    /\ IsSet(nodesMaybeOverreserved, "n2")
    /\ IsSet(nodesWithForeignPods, "n2")

\* the step is the second half of a Resync, however it ended
FlushStep == resyncPC = "dirty" /\ resyncPC' = "idle"

\* the node fails one of the checks Resync makes on a dirty node
FailsACheck(listing, obj, nodeName) ==
    IF obj = GetError THEN TRUE
    ELSE \/ ~HasRoster(listing, nodeName)
         \/ obj.pfp = <<>>
         \/ ~DigestMatches(listing, obj)

(***************************************************************************)
(* C16.  A Resync cycle leaves the stored object, the overlay entry and    *)
(* both counts of a node as they are when the node was not in the dirty    *)
(* set, or was and failed a check (fetch error, no roster, no fingerprint  *)
(* in the object, fingerprint mismatch); a dirty node left that way is     *)
(* still dirty after the cycle.  First conjunct: a node that fails a check *)
(* is never among those the cycle decides to flush.  Second conjunct: the  *)
(* cycle flushes dirty nodes only and touches nothing of the others.       *)
(***************************************************************************)
C16_FailedNodesUntouched ==
    [][ /\ DirtyStep =>
             \A listing \in Listings, got \in Fetches(resyncNodeNames') :
                \A n \in resyncNodeNames' :
                   FailsACheck(listing, got[n], n)
                   => n \notin Decision(resyncNodeNames', listing, got)
        /\ FlushStep =>
             /\ last'.ret.flushed \subseteq resyncNodeNames
             /\ \A n \in Nodes \ last'.ret.flushed :
                   /\ NodeState(n)' = NodeState(n)
                   /\ n \in DirtyNodes => n \in DirtyNodes' ]_vars

\* a cycle that flushed nothing while n1 carries an overlay and the foreign mark and
\* n2 the other mark
C16_Witness ==
    /\ last.op = "Resync"
    /\ last.ret.outcome = "checked"
    /\ last.ret.flushed = {}
    /\ Tracked("n1") # {}
    /\ IsSet(nodesWithForeignPods, "n1")
    /\ IsSet(nodesMaybeOverreserved, "n2")

(***************************************************************************)
(* C17 as stated.  While a Resync is past its dirty list, whatever the     *)
(* lister and the API server answer, a dirty node whose fetch succeeds and *)
(* whose object carries the fingerprint of the node's roster is among the  *)
(* nodes the cycle flushes, whether the other dirty nodes pass or fail.    *)
(***************************************************************************)
C17_MatchingNodeFlushed ==
    resyncPC = "dirty" =>
        \A listing \in Listings, got \in FetchesWithIdle(resyncNodeNames) :
           \A n \in resyncNodeNames :
              DigestMatches(listing, got[n])
              => n \in Decision(resyncNodeNames, listing, got)

(***************************************************************************)
(* C17, amended.  The failures of a cycle stay with their node: while a    *)
(* Resync is past its dirty list, whatever the lister and the API server   *)
(* answer, a dirty node that has a roster entry and whose fetched object   *)
(* carries the fingerprint of that roster is among the nodes the cycle     *)
(* flushes, whether the other dirty nodes pass or fail their own checks.   *)
(***************************************************************************)
C17_FailuresAreIsolated ==
    resyncPC = "dirty" =>
        \A listing \in Listings, got \in FetchesWithIdle(resyncNodeNames) :
           \A n \in resyncNodeNames :
              (HasRoster(listing, n) /\ DigestMatches(listing, got[n]))
              => n \in Decision(resyncNodeNames, listing, got)

\* a cycle has flushed n1 alone while n2 is still dirty, with a mark and an overlay
C17_Witness ==
    /\ last.op = "Resync"
    /\ last.ret.flushed = {"n1"}
    /\ Clean("n1")
    /\ IsSet(nodesMaybeOverreserved, "n2")
    /\ Tracked("n2") # {}

(***************************************************************************)
(* C18.  A Resync whose pod listing fails, and a Resync that finds no      *)
(* dirty node, leave the topology store, the overlay and both counters as  *)
(* they were; a Resync goes past its dirty list only when the list is not  *)
(* empty.                                                                  *)
(***************************************************************************)
C18_AbortedResync ==
    [][ /\ (last'.op = "Resync" /\ last'.ret.outcome \in {"list error", "no dirty nodes"})
           => UNCHANGED cache
        /\ (Did("Resync") /\ last'.ret.outcome = "no dirty nodes")
           => DirtyNodes = {} /\ resyncPC' = "idle"
        /\ DirtyStep => DirtyNodes # {} ]_vars

\* a Resync ended on a listing error while n1 is dirty and carries an overlay
C18_Witness ==
    /\ last.op = "Resync"
    /\ last.ret.outcome = "list error"
    /\ IsSet(nodesMaybeOverreserved, "n1")
    /\ Tracked("n1") # {}
    /\ resyncPC = "idle"

CountOf(c, nodeName) == IF nodeName \in DOMAIN c THEN c[nodeName] ELSE 0

\* once the cluster has settled, the object published for the node carries the
\* fingerprint of the pods listed on the node
Authoritative(nodeName) == DigestMatches(SettledListing, SettledNRT(nodeName))

\* the step marks the node: one of its two counts goes up
MarkStep(nodeName) ==
    \/ CountOf(nodesMaybeOverreserved', nodeName) > CountOf(nodesMaybeOverreserved, nodeName)
    \/ CountOf(nodesWithForeignPods', nodeName) > CountOf(nodesWithForeignPods, nodeName)

\* the step flushes the node: a FlushNodes call or the end of a Resync that names it
FlushesNode(nodeName) ==
    /\ last'.op \in {"FlushNodes", "Resync"}
    /\ nodeName \in last'.ret.flushed

(***************************************************************************)
(* C19 as stated.  Once the cluster has settled, every node whose          *)
(* published object can be fetched and carries the fingerprint of the      *)
(* node's roster, the empty roster included, and that is not marked any    *)
(* more from some point on, leaves the dirty list for good, Resync being   *)
(* called again and again: it does not stay dirty forever.                 *)
(***************************************************************************)
C19_EventuallyClean ==
    \A n \in Nodes :
       <>[][~MarkStep(n)]_vars => <>[](Authoritative(n) => n \notin DirtyNodes)

(***************************************************************************)
(* C19, amended.  Once the cluster has settled, every node that has a      *)
(* roster entry (at least one pod listed on it), whose published object    *)
(* can be fetched and carries the fingerprint of that roster, and that is  *)
(* not marked any more from some point on, leaves the dirty list for good, *)
(* Resync being called again and again.  Every Resync cycle that found     *)
(* such a node dirty ends with the node flushed: holding the published     *)
(* object, without overlay entry and marks.  A node leaves the dirty list  *)
(* only by being flushed or, when it was dirty on the over-reserved count  *)
(* alone, by a reservation made on it.                                     *)
(***************************************************************************)
C19_EventuallyCleanWithRoster ==
    /\ \A n \in Nodes :
          <>[][~MarkStep(n)]_vars
          => <>[]((HasRoster(SettledListing, n) /\ Authoritative(n)) => n \notin DirtyNodes)
    /\ [][ FlushStep =>
             \A n \in resyncNodeNames :
                (HasRoster(SettledListing, n) /\ Authoritative(n))
                => /\ FlushesNode(n)
                   /\ Clean(n)'
                   /\ nrts'[n] = SettledNRT(n) ]_vars
    /\ [][ \A n \in Nodes :
             (n \in DirtyNodes /\ n \notin DirtyNodes')
             => \/ FlushesNode(n)
                \/ /\ last'.op = "ReserveNodeResources"
                   /\ last'.node = n
                   /\ last'.ret.cleared
                   /\ ~IsSet(nodesWithForeignPods, n) ]_vars

\* n1, dirty on both counts with an overlay before, has been flushed by a Resync to
\* the object of the settled cluster while n2 stays dirty
C19_Witness ==
    /\ last.op = "Resync"
    /\ "n1" \in last.ret.flushed
    /\ Clean("n1")
    /\ nrts["n1"] = SettledNRT("n1")
    /\ "n2" \in DirtyNodes

(***************************************************************************)
(* C20.  Resync is atomic relative to the other public methods: between    *)
(* the step in which it computes the dirty list and the step in which it   *)
(* checks the fingerprints and flushes, nothing changes the topology       *)
(* store, the overlay or the counters (no reserve, unreserve,              *)
(* NodeMaybeOverReserved or NodeHasForeignPods takes effect), so the flush *)
(* erases no reservation and no mark made after the dirty list was         *)
(* computed.  The code takes ov.lock inside NodesMaybeOverReserved and     *)
(* inside FlushNodes only, and the steps of the other methods fall between *)
(* the two.                                                                *)
(***************************************************************************)
C20_ResyncAtomic ==
    [][ (resyncPC = "dirty" /\ resyncPC' = "dirty") => UNCHANGED cache ]_vars

(***************************************************************************)
(* C21.  In every reachable state every node counted in                    *)
(* nodesWithForeignPods has an object in the topology store: the node is   *)
(* counted only when the store contains it, a flush always stores an       *)
(* object and nothing removes one.  So the two nil outcomes of             *)
(* GetCachedNRTCopy never compete for a node: the condition of (nil,       *)
(* false), the foreign-pods count, and that of (nil, true), no object in   *)
(* the store, never hold together.                                         *)
(***************************************************************************)
C21_ForeignNodesAreStored ==
    \A n \in Nodes :
       IsSet(nodesWithForeignPods, n)
       => /\ Contains(nrts, n)
          /\ GetNRTCopyByNodeName(nrts, n) # NilNRT

\* n1 is counted as having foreign pods and is in the store, while the same call for
\* n2, which the store does not hold, has just been refused
C21_Witness ==
    /\ IsSet(nodesWithForeignPods, "n1")
    /\ Contains(nrts, "n1")
    /\ ~Contains(nrts, "n2")
    /\ ~IsSet(nodesWithForeignPods, "n2")
    /\ last = Call("NodeHasForeignPods", "n2", "-", 0)
    /\ GetCachedNRTCopyRets("n1") = {NilFalse}
    /\ GetCachedNRTCopyRets("n2") = {NilTrue}

====
